---------------------------- MODULE Spec2Model ----------------------------
(***************************************************************************)
(* s3-check: the permission checker (package checker, src/CHECKS.md lines  *)
(* 94-651).                                                                *)
(*                                                                         *)
(* Specifications over one set of definitions:                             *)
(*                                                                         *)
(*   Spec        CheckBucketsStream: the loop over the input list, the     *)
(*               eight check goroutines of a bucket, the WaitGroup, the    *)
(*               buffered result channel, the closer goroutine, the        *)
(*               collection loop, the callback and the inter-bucket sleep. *)
(*               A goroutine runs its check against the bucket's           *)
(*               environment (World) and sends the verdict.                *)
(*                                                                         *)
(*   SpecChecks  one invocation of one check function at a time, one       *)
(*               action per external call (aws CLI command, os.WriteFile,  *)
(*               deferred os.Remove), every call answered by any response  *)
(*               the environment can give; the calls are logged.           *)
(*                                                                         *)
(*   SpecBattery the eight checks run one at a time, run after run,        *)
(*               against a modelled bucket that answers the commands.      *)
(*                                                                         *)
(*   SpecStaging the goroutines of the four checks that stage a local      *)
(*               file and create a test object, running concurrently on    *)
(*               one bucket, with the clock their names are drawn from     *)
(*               and the files of /tmp.                                    *)
(*                                                                         *)
(*   SpecLive    Spec under the fairness of the goroutines' scheduling.    *)
(*                                                                         *)
(*   SpecRunCheck runCheck of the command line (cmd/check.go): the choice  *)
(*               of the input source, bucket discovery, and the call of    *)
(*               CheckBucketsStream, which runs as in Spec.                *)
(*                                                                         *)
(* All run the same step functions (checkGetACLWithContext ...            *)
(* checkAuthDel below), translated from the Go functions of those names.   *)
(***************************************************************************)
EXTENDS Integers, Sequences, FiniteSets, TLC

VARIABLES
    \* ---- CheckBucketsStream ----
    bucketNames,    \* the input list; an entry is a sequence of characters
    i,              \* the range loop's index (0-based, as in the source)
    dpc,            \* where the driver is
    bucketName,     \* the trimmed entry being processed
    result,         \* the BucketResult being assembled: CheckKind -> verdict, "" = unset
    wg,             \* the WaitGroup's counter
    resultsChan,    \* the buffered channel's content
    chanClosed,     \* close(resultsChan) has happened
    spawned,        \* how many of the eight check goroutines have been started
    gstate,         \* per check goroutine: "none" | "running" | "exited"
    closer,         \* the closer goroutine: "none" | "waiting" | "exited"
    delivered,      \* the callback's invocations, in order
    sleptAfter,     \* the indices after which the driver slept
    retErr,         \* what CheckBucketsStream returned: "none" while running, then "nil"
    \* ---- one check invocation ----
    ck,             \* the check being run, "none" when idle
    cpc,            \* where the check is
    cret,           \* the verdict decided so far ("" = none yet)
    calls,          \* the external calls this invocation issued, with their responses
    bucketPab,      \* the bucket's public-access-block flags that are true
    verbose,        \* the Checker's verbose field
    log,            \* the diagnostic lines this invocation printed to stderr
    \* ---- the eight checks against one bucket, run after run ----
    bkt,            \* the bucket: its configuration, its ACL, its objects
    run,            \* the number of the current run of the eight checks, 0 = none
    done,           \* the checks of the current run that have returned
    verdicts,       \* per run, per check: the verdict returned, "" = not yet
    getOutput,      \* checkPutACLWithContext's local getOutput
    tmpFile,        \* the content of the running check's temp file, "" = no file
    \* ---- the goroutines of the four staging checks of one bucket ----
    now,            \* the clock: what time.Now().UnixNano() returns, 0 = not running
    proc,           \* per staging check: its place, verdict, test key and temp file name
    files,          \* the names of the files that exist in /tmp
    \* ---- runCheck ----
    rpc,            \* where runCheck is, "off" when it is not running
    source,         \* the branch of the input priority chain taken, "" = none yet
    buckets,        \* runCheck's local buckets
    listed,         \* what ListAllBuckets returned: [err, names]
    runErr          \* what runCheck returned: "none" while running, "nil", or the error

vars == << bucketNames, i, dpc, bucketName, result, wg, resultsChan, chanClosed,
           spawned, gstate, closer, delivered, sleptAfter, retErr,
           ck, cpc, cret, calls, bucketPab, verbose, log,
           bkt, run, done, verdicts, getOutput, tmpFile,
           now, proc, files,
           rpc, source, buckets, listed, runErr >>

stagingVars == << now, proc, files >>

runVars == << rpc, source, buckets, listed, runErr >>

driverVars == << bucketNames, i, dpc, bucketName, result, wg, resultsChan, chanClosed,
                 spawned, gstate, closer, delivered, sleptAfter, retErr >>

checkVars == << ck, cpc, cret, calls, bucketPab, verbose, log >>

batteryVars == << bkt, run, done, verdicts, getOutput, tmpFile >>

-----------------------------------------------------------------------------
(* Bounds of the model *)

\* longest input list
MaxLen == 2

-----------------------------------------------------------------------------
(* The eight checks *)

\* the order of the go statements of CheckBucketsStream, and of CheckBuckets
KindOrder == << "GetACL", "PutACL", "AnonGet", "AuthGet",
                "AnonWrite", "AuthWrite", "AnonDel", "AuthDel" >>

Kinds == { KindOrder[k] : k \in 1..Len(KindOrder) }

OK == "OK"

DENIED == "DENIED"

-----------------------------------------------------------------------------
(* Responses of the external calls.                                        *)
(* A response is [err, text]: err is the Go error being non-nil, text is   *)
(* the set of the substrings the code searches for (strings.Contains) that *)
(* occur in the command's combined output.                                 *)

DeniedMarkers == { "AccessDenied", "403", "Forbidden" }

NotFoundMarkers == { "NoSuchKey", "404" }

NoSuchPab == "NoSuchPublicAccessBlockConfiguration"

\* the aws CLI's text when the endpoint cannot be reached; no check searches for it
NetworkError == "Could not connect to the endpoint URL"

PabFlags == { "BlockPublicAcls", "BlockPublicPolicy", "IgnorePublicAcls", "RestrictPublicBuckets" }

\* the text searched for each flag in get-public-access-block's output
PabPattern(f) ==
    CASE f = "BlockPublicAcls"       -> "\"BlockPublicAcls\": true"
      [] f = "BlockPublicPolicy"     -> "\"BlockPublicPolicy\": true"
      [] f = "IgnorePublicAcls"      -> "\"IgnorePublicAcls\": true"
      [] f = "RestrictPublicBuckets" -> "\"RestrictPublicBuckets\": true"

PabPatterns == { PabPattern(f) : f \in PabFlags }

PrincipalPatterns == { "\"Principal\":\"*\"", "\"Principal\":{\"AWS\":\"*\"}" }

ActionPatterns == { "\"s3:GetObject\"", "\"s3:Get*\"" }

Resp(e, t) == [ err |-> e, text |-> t ]

Success == Resp(FALSE, {})

\* strings.Contains(errStr, "AccessDenied") || ... "403" || ... "Forbidden"
isAccessDenied(r) == (r.text \cap DeniedMarkers) # {}

\* (mutant) the status 403 is taken for a not-found signal too
isNotFoundOr403(r) == (r.text \cap (NotFoundMarkers \cup { "403" })) # {}

\* (mutant) the "404" text is not searched for
isNotFoundNoSuchKeyOnly(r) == "NoSuchKey" \in r.text

\* strings.Contains(errStr, "NoSuchKey") || strings.Contains(errStr, "404")
isNotFound(r) == (r.text \cap NotFoundMarkers) # {}

\* (mutant) only the two flags about policies are searched
pabBlockedPolicyFlagsOnly(r) ==
    (~r.err) /\ ((r.text \cap { PabPattern("BlockPublicPolicy"), PabPattern("RestrictPublicBuckets") }) # {})

\* (mutant) a fetch that is refused counts as a block
pabBlockedOrRefused(r) ==
    \/ (r.err /\ "AccessDenied" \in r.text)
    \/ ((~r.err) /\ ((r.text \cap PabPatterns) # {}))

\* any of the four `"<Flag>": true` texts occurs in a successful
\* get-public-access-block output (the pre-check of checkAnonGet,
\* checkAnonWrite and checkAnonDel)
pabBlocked(r) == (~r.err) /\ ((r.text \cap PabPatterns) # {})

-----------------------------------------------------------------------------
(* The check functions, one step per external call.                        *)
(* A step takes the place pc of the check, the verdict ret decided so far  *)
(* and the response r of the call issued at pc, and gives the next place   *)
(* and verdict. "done" is the function's return, ret the value returned.   *)
(* A deferred os.Remove(tmpFile) runs at place "Remove", after the verdict *)
(* is decided and before the return.                                       *)

Return(v) == [ pc |-> "done", ret |-> v ]

Goto(p) == [ pc |-> p, ret |-> "" ]

\* return v from a function whose defer os.Remove(tmpFile) is registered
ReturnDeferred(v) == [ pc |-> "Remove", ret |-> v ]

checkGetACLWithContext(pc, ret, r) ==
    IF r.err
    THEN (IF isAccessDenied(r) THEN Return(DENIED) ELSE Return(DENIED))
    ELSE Return(OK)

\* (mutant) the write-back is tried although the ACL could not be staged
checkPutACLDespiteStagingFailure(pc, ret, r) ==
    CASE pc = "get-bucket-acl" ->
            IF r.err THEN Return(DENIED) ELSE Goto("WriteFile")
      [] pc = "WriteFile" -> Goto("put-bucket-acl")
      [] pc = "put-bucket-acl" ->
            IF r.err THEN ReturnDeferred(DENIED) ELSE ReturnDeferred(OK)
      [] pc = "Remove" -> Return(ret)

checkPutACLWithContext(pc, ret, r) ==
    CASE pc = "get-bucket-acl" ->
            IF r.err THEN Return(DENIED) ELSE Goto("WriteFile")
      [] pc = "WriteFile" ->
            IF r.err THEN Return(DENIED) ELSE Goto("put-bucket-acl")
      [] pc = "put-bucket-acl" ->
            IF r.err THEN ReturnDeferred(DENIED) ELSE ReturnDeferred(OK)
      [] pc = "Remove" -> Return(ret)

\* (mutant) a wildcard principal is enough, whatever the actions
checkBucketPolicyPrincipalOnly(r) ==
    IF r.err
    THEN Return(DENIED)
    ELSE IF (r.text \cap PrincipalPatterns) # {}
         THEN Return(OK)
         ELSE Return(DENIED)

checkBucketPolicyForAnonGet(r) ==
    IF r.err
    THEN Return(DENIED)
    ELSE IF (r.text \cap PrincipalPatterns) # {} /\ (r.text \cap ActionPatterns) # {}
         THEN Return(OK)
         ELSE Return(DENIED)

\* (mutant) a configuration read with no flag true is taken for public access
checkAnonGetOpenIfUnblocked(pc, ret, r) ==
    CASE pc = "get-public-access-block" ->
            IF pabBlocked(r) THEN Return(DENIED)
            ELSE IF ~r.err THEN Return(OK)
            ELSE Goto("head-object")
      [] pc = "head-object" ->
            IF r.err
            THEN IF isNotFound(r) THEN Return(OK)
                 ELSE IF isAccessDenied(r) THEN Return(DENIED)
                 ELSE Goto("get-bucket-policy")
            ELSE Return(OK)
      [] pc = "get-bucket-policy" -> checkBucketPolicyForAnonGet(r)

checkAnonGet(pc, ret, r) ==
    CASE pc = "get-public-access-block" ->
            IF pabBlocked(r) THEN Return(DENIED) ELSE Goto("head-object")
      [] pc = "head-object" ->
            IF r.err
            THEN IF isNotFound(r) THEN Return(OK)
                 ELSE IF isAccessDenied(r) THEN Return(DENIED)
                 ELSE Goto("get-bucket-policy")
            ELSE Return(OK)
      [] pc = "get-bucket-policy" -> checkBucketPolicyForAnonGet(r)

\* (mutant) a failed head-object with no signal in its text is tried again
checkAuthGetRetry(pc, ret, r) ==
    IF r.err
    THEN IF isNotFound(r) THEN Return(OK)
         ELSE IF isAccessDenied(r) THEN Return(DENIED)
         ELSE Goto("head-object")
    ELSE Return(OK)

\* (mutant) no not-found test: every failed head-object is DENIED
checkAuthGetMissingIsDenied(pc, ret, r) ==
    IF r.err
    THEN IF isAccessDenied(r) THEN Return(DENIED)
         ELSE Return(DENIED)
    ELSE Return(OK)

checkAuthGet(pc, ret, r) ==
    IF r.err
    THEN IF isNotFound(r) THEN Return(OK)
         ELSE IF isAccessDenied(r) THEN Return(DENIED)
         ELSE Return(DENIED)
    ELSE Return(OK)

\* (mutant) a failed cleanup delete turns the verdict to DENIED
checkAnonWriteCleanupDecides(pc, ret, r) ==
    CASE pc = "get-public-access-block" ->
            IF pabBlocked(r) THEN Return(DENIED) ELSE Goto("WriteFile")
      [] pc = "WriteFile" ->
            IF r.err THEN Return(DENIED) ELSE Goto("put-object")
      [] pc = "put-object" ->
            IF r.err THEN ReturnDeferred(DENIED) ELSE Goto("cleanup")
      [] pc = "cleanup" ->
            IF r.err THEN ReturnDeferred(DENIED) ELSE ReturnDeferred(OK)
      [] pc = "Remove" -> Return(ret)

checkAnonWrite(pc, ret, r) ==
    CASE pc = "get-public-access-block" ->
            IF pabBlocked(r) THEN Return(DENIED) ELSE Goto("WriteFile")
      [] pc = "WriteFile" ->
            IF r.err THEN Return(DENIED) ELSE Goto("put-object")
      [] pc = "put-object" ->
            IF r.err THEN ReturnDeferred(DENIED) ELSE Goto("cleanup")
      [] pc = "cleanup" -> ReturnDeferred(OK)
      [] pc = "Remove" -> Return(ret)

checkAuthWrite(pc, ret, r) ==
    CASE pc = "WriteFile" ->
            IF r.err THEN Return(DENIED) ELSE Goto("put-object")
      [] pc = "put-object" ->
            IF r.err THEN ReturnDeferred(DENIED) ELSE Goto("cleanup")
      [] pc = "cleanup" -> ReturnDeferred(OK)
      [] pc = "Remove" -> Return(ret)

\* (mutant) no cleanup after a failed unsigned delete
checkAnonDelNoCleanup(pc, ret, r) ==
    CASE pc = "get-public-access-block" ->
            IF pabBlocked(r) THEN Return(DENIED) ELSE Goto("WriteFile")
      [] pc = "WriteFile" ->
            IF r.err THEN Return(DENIED) ELSE Goto("put-object")
      [] pc = "put-object" ->
            IF r.err THEN ReturnDeferred(DENIED) ELSE Goto("delete-object")
      [] pc = "delete-object" ->
            IF r.err THEN ReturnDeferred(DENIED) ELSE ReturnDeferred(OK)
      [] pc = "Remove" -> Return(ret)

\* (mutant) a failed creation of the test object still goes to the cleanup delete
checkAnonDelCleanupOnPutFailure(pc, ret, r) ==
    CASE pc = "get-public-access-block" ->
            IF pabBlocked(r) THEN Return(DENIED) ELSE Goto("WriteFile")
      [] pc = "WriteFile" ->
            IF r.err THEN Return(DENIED) ELSE Goto("put-object")
      [] pc = "put-object" ->
            IF r.err THEN Goto("cleanup") ELSE Goto("delete-object")
      [] pc = "delete-object" ->
            IF r.err THEN Goto("cleanup") ELSE ReturnDeferred(OK)
      [] pc = "cleanup" -> ReturnDeferred(DENIED)
      [] pc = "Remove" -> Return(ret)

checkAnonDel(pc, ret, r) ==
    CASE pc = "get-public-access-block" ->
            IF pabBlocked(r) THEN Return(DENIED) ELSE Goto("WriteFile")
      [] pc = "WriteFile" ->
            IF r.err THEN Return(DENIED) ELSE Goto("put-object")
      [] pc = "put-object" ->
            IF r.err THEN ReturnDeferred(DENIED) ELSE Goto("delete-object")
      [] pc = "delete-object" ->
            IF r.err THEN Goto("cleanup") ELSE ReturnDeferred(OK)
      [] pc = "cleanup" -> ReturnDeferred(DENIED)
      [] pc = "Remove" -> Return(ret)

\* (mutant) a failed creation of the test object returns without the
\* removal of the temp file
checkAuthDelLeavesFile(pc, ret, r) ==
    CASE pc = "WriteFile" ->
            IF r.err THEN Return(DENIED) ELSE Goto("put-object")
      [] pc = "put-object" ->
            IF r.err THEN Return(DENIED) ELSE Goto("delete-object")
      [] pc = "delete-object" ->
            IF r.err THEN ReturnDeferred(DENIED) ELSE ReturnDeferred(OK)
      [] pc = "Remove" -> Return(ret)

checkAuthDel(pc, ret, r) ==
    CASE pc = "WriteFile" ->
            IF r.err THEN Return(DENIED) ELSE Goto("put-object")
      [] pc = "put-object" ->
            IF r.err THEN ReturnDeferred(DENIED) ELSE Goto("delete-object")
      [] pc = "delete-object" ->
            IF r.err THEN ReturnDeferred(DENIED) ELSE ReturnDeferred(OK)
      [] pc = "Remove" -> Return(ret)

\* the first external call of each check
StartPc(kind) ==
    CASE kind \in { "GetACL", "PutACL" }               -> "get-bucket-acl"
      [] kind \in { "AnonGet", "AnonWrite", "AnonDel" } -> "get-public-access-block"
      [] kind = "AuthGet"                               -> "head-object"
      [] kind \in { "AuthWrite", "AuthDel" }            -> "WriteFile"

\* the call issued at a place: the command (or os function) and whether it
\* carries --no-sign-request
CallAt(kind, pc) ==
    [ op   |-> IF pc = "cleanup" THEN "delete-object" ELSE pc,
      anon |-> \/ (kind = "AnonGet" /\ pc = "head-object")
               \/ (kind = "AnonWrite" /\ pc \in { "put-object", "cleanup" })
               \/ (kind = "AnonDel" /\ pc = "delete-object") ]

Step(kind, pc, ret, r) ==
    CASE kind = "GetACL"    -> checkGetACLWithContext(pc, ret, r)
      [] kind = "PutACL"    -> checkPutACLWithContext(pc, ret, r)
      [] kind = "AnonGet"   -> checkAnonGet(pc, ret, r)
      [] kind = "AuthGet"   -> checkAuthGet(pc, ret, r)
      [] kind = "AnonWrite" -> checkAnonWrite(pc, ret, r)
      [] kind = "AuthWrite" -> checkAuthWrite(pc, ret, r)
      [] kind = "AnonDel"   -> checkAnonDel(pc, ret, r)
      [] kind = "AuthDel"   -> checkAuthDel(pc, ret, r)

\* a check run to its return in an environment env, which gives for each
\* call [op, anon] the set of responses the call can get: the verdicts the
\* check can return
RECURSIVE RunFrom(_, _, _, _)
RunFrom(kind, pc, ret, env) ==
    IF pc = "done"
    THEN { ret }
    ELSE UNION { LET s == Step(kind, pc, ret, r)
                 IN  RunFrom(kind, s.pc, s.ret, env) : r \in env[CallAt(kind, pc)] }

RunCheck(kind, env) == RunFrom(kind, StartPc(kind), "", env)

\* the lines a check prints to stderr at place pc on response r, the
\* Checker's verbose field being v: every `if c.verbose { fmt.Fprintf(...) }`
\* sits in the error branch of a call whose output the check reads; the
\* public-access-block fetch prints unless the error text says that no
\* configuration exists; the cleanup delete (delCmd.Run()) and the deferred
\* os.Remove print nothing
Diagnostic(kind, pc, r, v) ==
    IF /\ v
       /\ r.err
       /\ pc \notin { "cleanup", "Remove" }
       /\ (pc = "get-public-access-block" => NoSuchPab \notin r.text)
    THEN << [ check |-> kind, at |-> pc ] >>
    ELSE << >>

-----------------------------------------------------------------------------
(* Bucket identifiers: sequences of characters *)

\* white space as strings.TrimSpace sees it (the ASCII part of unicode.IsSpace)
IsSpace(c) == c \in { " ", "\t", "\n", "\r" }

RECURSIVE TrimLeft(_)
TrimLeft(s) ==
    IF s # << >> /\ IsSpace(Head(s)) THEN TrimLeft(Tail(s)) ELSE s

RECURSIVE TrimRight(_)
TrimRight(s) ==
    IF s # << >> /\ IsSpace(s[Len(s)]) THEN TrimRight(SubSeq(s, 1, Len(s) - 1)) ELSE s

\* (mutant) the entry is used as given
TrimSpaceNone(s) == s

\* strings.TrimSpace
TrimSpace(s) == TrimRight(TrimLeft(s))

\* the entries an input list is drawn from: the empty string, a
\* whitespace-only string, two plain names, a name with surrounding white
\* space
Entries == { << >>, << " ", "\t" >>, << "a" >>, << "b" >>, << " ", "b", " " >> }

Lists == UNION { [ 1..n -> Entries ] : n \in 0..MaxLen }

-----------------------------------------------------------------------------
(* Environments.                                                           *)
(* An environment gives, for each call [op, anon], the set of responses    *)
(* the call can get.                                                       *)

ApiOps == { "get-bucket-acl", "put-bucket-acl", "get-public-access-block",
            "head-object", "get-bucket-policy", "put-object", "delete-object" }

LocalOps == { "WriteFile", "Remove" }

CallSet == [ op : ApiOps \cup LocalOps, anon : BOOLEAN ]

\* every aws command fails (network unreachable, request rejected) with an
\* error text that may carry any of the access-denied texts and carries no
\* not-found text; a local file operation may succeed or fail
AllFail ==
    [ c \in CallSet |->
        IF c.op \in LocalOps
        THEN { Success, Resp(TRUE, {}) }
        ELSE { Resp(TRUE, t) : t \in SUBSET DeniedMarkers } ]

\* a bucket the caller owns, with no public-access-block configuration, no
\* bucket policy and nothing granted to anonymous requests
OwnerPrivate ==
    [ c \in CallSet |->
        IF c.op \in LocalOps THEN { Success }
        ELSE IF c.anon
             THEN (IF c.op = "head-object" THEN { Resp(TRUE, { "403", "Forbidden" }) }
                                           ELSE { Resp(TRUE, { "AccessDenied" }) })
        ELSE IF c.op = "head-object" THEN { Resp(TRUE, { "404" }) }
        ELSE IF c.op = "get-public-access-block" THEN { Resp(TRUE, { NoSuchPab }) }
        ELSE IF c.op = "get-bucket-policy" THEN { Resp(TRUE, {}) }
        ELSE { Success } ]

\* the buckets of the model: every call on bucket "a" fails, bucket "b" is
\* the caller's own private bucket
World(name) == IF name = << "a" >> THEN AllFail ELSE OwnerPrivate

\* the bucket names the entries give
Names == { TrimSpace(e) : e \in Entries } \ { << >> }

\* the verdicts each check can return on each bucket of the model
WorldVerdicts == [ n \in Names |-> [ k \in Kinds |-> RunCheck(k, World(n)) ] ]

\* what get-public-access-block can answer on a bucket whose true flags are
\* flags: the JSON rendering of the configuration, a rendering in another
\* output format of the CLI (text, yaml, table: none of the searched texts
\* occurs), or an error (no configuration, only when no flag is true; access
\* denied; anything else)
PabResponses(flags) ==
    { Resp(FALSE, { PabPattern(f) : f \in flags }), Resp(FALSE, {}) }
    \cup { Resp(TRUE, {}), Resp(TRUE, { "AccessDenied" }) }
    \cup (IF flags = {} THEN { Resp(TRUE, { NoSuchPab }) } ELSE {})

\* every response each call can get on a bucket whose true
\* public-access-block flags are flags. The text of a failed connection
\* quotes the request's URL, in which the bucket name and, for an object
\* command, the key test-<nanos> stand: it may hold the digits 404.
AnyResponse(flags) ==
    [ c \in CallSet |->
        CASE c.op \in LocalOps -> { Success, Resp(TRUE, {}) }
          [] c.op = "get-public-access-block" -> PabResponses(flags)
          [] c.op = "head-object" ->
                { Success } \cup { Resp(TRUE, t) : t \in SUBSET (NotFoundMarkers \cup DeniedMarkers) }
                \cup { Resp(TRUE, { NetworkError } \cup t) : t \in SUBSET { "404" } }
          [] c.op = "get-bucket-policy" ->
                { Resp(FALSE, t) : t \in SUBSET (PrincipalPatterns \cup ActionPatterns) }
                \cup { Resp(TRUE, {}), Resp(TRUE, { "AccessDenied" }) }
          [] OTHER -> { Success, Resp(TRUE, {}), Resp(TRUE, { "AccessDenied" }),
                        Resp(TRUE, { NetworkError }) } ]

-----------------------------------------------------------------------------
(* The bucket, as the commands of the checks see it.                       *)
(* A bucket has a fixed configuration (what the caller may do, the         *)
(* public-access-block configuration, the policy) and a state the commands *)
(* change: its ACL and its objects.                                        *)

Acls == { "private", "public-read", "public-read-write" }

ObjectOps == { "head-object", "put-object", "delete-object" }

NoBucket == [ name |-> "none" ]

\* nothing is permitted to anyone; all four public-access-block flags are
\* true; pabVisible: the caller can at least read that configuration
Locked(pabVisible) ==
    [ name |-> "Locked",
      authAllow |-> IF pabVisible THEN { "get-public-access-block" } ELSE {},
      pabConfigured |-> TRUE, pab |-> PabFlags,
      hasPolicy |-> FALSE, policyText |-> {}, anonPolicy |-> {},
      acl |-> "private", objects |-> {} ]

\* the caller may do everything; no flag is true (no configuration, or one
\* with its four flags false); no policy; the ACL is acl
Owned(pabConf, acl) ==
    [ name |-> "Owned",
      authAllow |-> ApiOps,
      pabConfigured |-> pabConf, pab |-> {},
      hasPolicy |-> FALSE, policyText |-> {}, anonPolicy |-> {},
      acl |-> acl, objects |-> {} ]

\* a policy lets everyone put objects, and nothing else
DropBox ==
    [ name |-> "DropBox",
      authAllow |-> ApiOps,
      pabConfigured |-> FALSE, pab |-> {},
      hasPolicy |-> TRUE, policyText |-> { "\"Principal\":\"*\"" },
      anonPolicy |-> { "put-object" },
      acl |-> "private", objects |-> {} ]

\* the caller may read the ACL and put objects, and nothing else
PutOnlyCaller ==
    [ name |-> "PutOnlyCaller",
      authAllow |-> { "get-bucket-acl", "put-object" },
      pabConfigured |-> FALSE, pab |-> {},
      hasPolicy |-> FALSE, policyText |-> {}, anonPolicy |-> {},
      acl |-> "private", objects |-> {} ]

\* a policy lets everyone read and delete objects; BlockPublicAcls is the
\* one flag that is true
PublicPolicy ==
    [ name |-> "PublicPolicy",
      authAllow |-> ApiOps,
      pabConfigured |-> TRUE, pab |-> { "BlockPublicAcls" },
      hasPolicy |-> TRUE,
      policyText |-> { "\"Principal\":\"*\"", "\"s3:GetObject\"" },
      anonPolicy |-> { "head-object", "delete-object" },
      acl |-> "private", objects |-> {} ]

Buckets ==
    { Locked(v) : v \in BOOLEAN }
    \cup { Owned(c, a) : c \in BOOLEAN, a \in Acls }
    \cup { DropBox, PutOnlyCaller, PublicPolicy }

\* is the request permitted: the caller by its own permissions; an unsigned
\* request by the policy (unless RestrictPublicBuckets) or by the bucket ACL
\* (unless IgnorePublicAcls): READ lets everyone list, so that the head of
\* a missing key is answered 404, WRITE lets everyone create and delete
Allowed(b, c) ==
    IF c.anon
    THEN \/ (c.op \in b.anonPolicy /\ "RestrictPublicBuckets" \notin b.pab)
         \/ /\ "IgnorePublicAcls" \notin b.pab
            /\ \/ (c.op = "head-object" /\ b.acl \in { "public-read", "public-read-write" })
               \/ (c.op \in { "put-object", "delete-object" } /\ b.acl = "public-read-write")
    ELSE c.op \in b.authAllow

\* the error text of a rejected request, as the aws CLI prints it
DeniedResponse(op) ==
    IF op = "head-object" THEN Resp(TRUE, { "403", "Forbidden" })
                          ELSE Resp(TRUE, { "AccessDenied" })

\* the checks that create a test object
StagingKinds == { "AnonWrite", "AuthWrite", "AnonDel", "AuthDel" }

\* (mutant) every check names its test object "test-<nanos>"
TestKeyOnePrefix(kind, n) == "test-" \o ToString(n)

\* the test key of a check, fmt.Sprintf("<prefix>%d", time.Now().UnixNano()):
\* the check's prefix followed by the decimal digits of the time n
TestKey(kind, n) ==
    ( CASE kind \in { "AnonGet", "AuthGet" } -> "test-"
        [] kind = "AnonWrite" -> "test-anon-write-"
        [] kind = "AuthWrite" -> "test-auth-write-"
        [] kind = "AnonDel"   -> "test-anon-del-"
        [] kind = "AuthDel"   -> "test-auth-del-" ) \o ToString(n)

\* the temp file's name of the four staging checks,
\* fmt.Sprintf("/tmp/test-%s-%d", bucketName, time.Now().UnixNano()): the
\* same pattern in the four functions
TmpName(name, n) == "/tmp/test-" \o name \o "-" \o ToString(n)

\* the aws command c on bucket b, with --key key and, for put-bucket-acl,
\* the file content body: the response, the output the check keeps (the
\* ACL document) and the bucket afterwards
Answer(rsp, out, b) == [ resp |-> rsp, out |-> out, bucket |-> b ]

S3(b, c, key, body) ==
    IF ~Allowed(b, c) THEN Answer(DeniedResponse(c.op), "", b)
    ELSE CASE c.op = "get-bucket-acl" -> Answer(Success, b.acl, b)
           [] c.op = "put-bucket-acl" ->
                IF body \in Acls
                THEN Answer(Success, "", [ b EXCEPT !.acl = body ])
                ELSE Answer(Resp(TRUE, {}), "", b)
           [] c.op = "get-public-access-block" ->
                IF b.pabConfigured
                THEN Answer(Resp(FALSE, { PabPattern(f) : f \in b.pab }), "", b)
                ELSE Answer(Resp(TRUE, { NoSuchPab }), "", b)
           [] c.op = "head-object" ->
                IF key \in b.objects
                THEN Answer(Success, "", b)
                ELSE Answer(Resp(TRUE, { "404" }), "", b)
           [] c.op = "get-bucket-policy" ->
                IF b.hasPolicy
                THEN Answer(Resp(FALSE, b.policyText), "", b)
                ELSE Answer(Resp(TRUE, {}), "", b)
           [] c.op = "put-object" ->
                Answer(Success, "", [ b EXCEPT !.objects = @ \cup { key } ])
           [] c.op = "delete-object" ->
                Answer(Success, "", [ b EXCEPT !.objects = @ \ { key } ])

-----------------------------------------------------------------------------
(* CheckBucketsStream *)

\* wg.Add(8)
WgAdd == 8

\* make(chan checkResult, 8)
ChanCap == 8

\* BucketResult{BucketName: bucketName}: the eight verdicts are Go's zero string
NewResult(name) ==
    [ BucketName |-> name, GetACL |-> "", PutACL |-> "", AnonGet |-> "", AuthGet |-> "",
      AnonWrite |-> "", AuthWrite |-> "", AnonDel |-> "", AuthDel |-> "" ]

\* (mutant) the switch lacks the case "AuthDel"
StoreResultMissingCase(res, m) ==
    CASE m.field = "GetACL"    -> [ res EXCEPT !.GetACL = m.value ]
      [] m.field = "PutACL"    -> [ res EXCEPT !.PutACL = m.value ]
      [] m.field = "AnonGet"   -> [ res EXCEPT !.AnonGet = m.value ]
      [] m.field = "AuthGet"   -> [ res EXCEPT !.AuthGet = m.value ]
      [] m.field = "AnonWrite" -> [ res EXCEPT !.AnonWrite = m.value ]
      [] m.field = "AuthWrite" -> [ res EXCEPT !.AuthWrite = m.value ]
      [] m.field = "AnonDel"   -> [ res EXCEPT !.AnonDel = m.value ]
      [] OTHER                 -> res

\* (mutant) the cases "AnonGet" and "AuthGet" store into each other's field
StoreResultCrossed(res, m) ==
    CASE m.field = "GetACL"    -> [ res EXCEPT !.GetACL = m.value ]
      [] m.field = "PutACL"    -> [ res EXCEPT !.PutACL = m.value ]
      [] m.field = "AnonGet"   -> [ res EXCEPT !.AuthGet = m.value ]
      [] m.field = "AuthGet"   -> [ res EXCEPT !.AnonGet = m.value ]
      [] m.field = "AnonWrite" -> [ res EXCEPT !.AnonWrite = m.value ]
      [] m.field = "AuthWrite" -> [ res EXCEPT !.AuthWrite = m.value ]
      [] m.field = "AnonDel"   -> [ res EXCEPT !.AnonDel = m.value ]
      [] m.field = "AuthDel"   -> [ res EXCEPT !.AuthDel = m.value ]
      [] OTHER                 -> res

\* the switch on res.field of the collection loop
StoreResult(res, m) ==
    CASE m.field = "GetACL"    -> [ res EXCEPT !.GetACL = m.value ]
      [] m.field = "PutACL"    -> [ res EXCEPT !.PutACL = m.value ]
      [] m.field = "AnonGet"   -> [ res EXCEPT !.AnonGet = m.value ]
      [] m.field = "AuthGet"   -> [ res EXCEPT !.AuthGet = m.value ]
      [] m.field = "AnonWrite" -> [ res EXCEPT !.AnonWrite = m.value ]
      [] m.field = "AuthWrite" -> [ res EXCEPT !.AuthWrite = m.value ]
      [] m.field = "AnonDel"   -> [ res EXCEPT !.AnonDel = m.value ]
      [] m.field = "AuthDel"   -> [ res EXCEPT !.AuthDel = m.value ]
      [] OTHER                 -> res

\* the value a check function returns on the bucket of that name, the
\* outcomes of its calls being those of the bucket's environment
CheckVerdict(k, name) == CHOOSE v \in RunCheck(k, World(name)) : TRUE

\* one iteration of CheckBuckets: BucketResult{BucketName: bucketName} and
\* the eight assignments result.GetACL = c.checkGetACL(bucketName), ...
SequentialResult(name) ==
    [ BucketName |-> name,
      GetACL    |-> CheckVerdict("GetACL", name),
      PutACL    |-> CheckVerdict("PutACL", name),
      AnonGet   |-> CheckVerdict("AnonGet", name),
      AuthGet   |-> CheckVerdict("AuthGet", name),
      AnonWrite |-> CheckVerdict("AnonWrite", name),
      AuthWrite |-> CheckVerdict("AuthWrite", name),
      AnonDel   |-> CheckVerdict("AnonDel", name),
      AuthDel   |-> CheckVerdict("AuthDel", name) ]

\* for _, bucketName := range bucketNames { ...; results = append(results, result) }
RECURSIVE CheckBucketsFrom(_, _)
CheckBucketsFrom(names, results) ==
    IF names = << >>
    THEN results
    ELSE CheckBucketsFrom(Tail(names), Append(results, SequentialResult(Head(names))))

\* (mutant) each result is put in front of the earlier ones
CheckBucketsNewestFirst(names) ==
    LET r == CheckBucketsFrom(names, << >>)
    IN  [ p \in 1..Len(r) |-> r[Len(r) + 1 - p] ]

\* CheckBuckets: the sequential variant, which returns the results; the
\* entries are used as given, neither trimmed nor skipped
CheckBuckets(names) == CheckBucketsFrom(names, << >>)

\* (mutant) the list is walked from its end
EntryAtReversed(idx) == bucketNames[Len(bucketNames) - idx]

\* for i, bucketName := range bucketNames: the entry of iteration idx
EntryAt(idx) == bucketNames[idx + 1]

CheckIdle ==
    /\ ck = "none"
    /\ cpc = "idle"
    /\ cret = ""
    /\ calls = << >>
    /\ bucketPab = {}
    /\ verbose = FALSE
    /\ log = << >>

\* no run of the eight checks against a modelled bucket
BatteryIdle ==
    /\ bkt = NoBucket
    /\ run = 0
    /\ done = {}
    /\ verdicts = << >>
    /\ getOutput = ""
    /\ tmpFile = ""

\* no goroutines of the staging specification
StagingIdle ==
    /\ now = 0
    /\ proc = << >>
    /\ files = {}

\* ListAllBuckets has not been called
NotListed == [ err |-> FALSE, names |-> << >>, called |-> FALSE ]

\* runCheck is not running
RunIdle ==
    /\ rpc = "off"
    /\ source = ""
    /\ buckets = << >>
    /\ listed = NotListed
    /\ runErr = "none"

Init ==
    /\ bucketNames \in Lists
    /\ i = 0
    /\ dpc = "loop"
    /\ bucketName = << >>
    /\ result = NewResult(<< >>)
    /\ wg = 0
    /\ resultsChan = {}
    /\ chanClosed = FALSE
    /\ spawned = 0
    /\ gstate = [ k \in Kinds |-> "none" ]
    /\ closer = "none"
    /\ delivered = << >>
    /\ sleptAfter = {}
    /\ retErr = "none"
    /\ CheckIdle
    /\ BatteryIdle
    /\ StagingIdle
    /\ RunIdle

\* an entry that is empty after trimming: continue
LoopSkip ==
    /\ dpc = "loop"
    /\ i < Len(bucketNames)
    /\ TrimSpace(EntryAt(i)) = << >>
    /\ i' = i + 1
    /\ UNCHANGED << bucketNames, dpc, bucketName, result, wg, resultsChan, chanClosed,
                    spawned, gstate, closer, delivered, sleptAfter, retErr >>
    /\ UNCHANGED checkVars
    /\ UNCHANGED batteryVars
    /\ UNCHANGED stagingVars
    /\ UNCHANGED runVars

\* a non-blank entry: the fresh result, WaitGroup and channel of this iteration
LoopBegin ==
    /\ dpc = "loop"
    /\ i < Len(bucketNames)
    /\ TrimSpace(EntryAt(i)) # << >>
    /\ bucketName' = TrimSpace(EntryAt(i))
    /\ result' = NewResult(bucketName')
    /\ wg' = WgAdd
    /\ resultsChan' = {}
    /\ chanClosed' = FALSE
    /\ spawned' = 0
    /\ gstate' = [ k \in Kinds |-> "none" ]
    /\ closer' = "none"
    /\ dpc' = "spawn"
    /\ UNCHANGED << bucketNames, i, delivered, sleptAfter, retErr >>
    /\ UNCHANGED checkVars
    /\ UNCHANGED batteryVars
    /\ UNCHANGED stagingVars
    /\ UNCHANGED runVars

\* (mutant) a bucket whose eight checks were all denied makes the driver
\* return an error
LoopEndReportFailure ==
    /\ dpc = "loop"
    /\ i = Len(bucketNames)
    /\ dpc' = "returned"
    /\ retErr' = IF \E p \in 1..Len(delivered) :
                       \A k \in Kinds : delivered[p].result[k] = DENIED
                 THEN "error"
                 ELSE "nil"
    /\ UNCHANGED << bucketNames, i, bucketName, result, wg, resultsChan, chanClosed,
                    spawned, gstate, closer, delivered, sleptAfter >>
    /\ UNCHANGED checkVars
    /\ UNCHANGED batteryVars
    /\ UNCHANGED stagingVars
    /\ UNCHANGED runVars

\* the range loop is over: return nil
LoopEnd ==
    /\ dpc = "loop"
    /\ i = Len(bucketNames)
    /\ dpc' = "returned"
    /\ retErr' = "nil"
    /\ UNCHANGED << bucketNames, i, bucketName, result, wg, resultsChan, chanClosed,
                    spawned, gstate, closer, delivered, sleptAfter >>
    /\ UNCHANGED checkVars
    /\ UNCHANGED batteryVars
    /\ UNCHANGED stagingVars
    /\ UNCHANGED runVars

\* the next of the eight go statements
SpawnCheck ==
    /\ dpc = "spawn"
    /\ spawned < Len(KindOrder)
    /\ gstate' = [ gstate EXCEPT ![KindOrder[spawned + 1]] = "running" ]
    /\ spawned' = spawned + 1
    /\ UNCHANGED << bucketNames, i, dpc, bucketName, result, wg, resultsChan, chanClosed,
                    closer, delivered, sleptAfter, retErr >>
    /\ UNCHANGED checkVars
    /\ UNCHANGED batteryVars
    /\ UNCHANGED stagingVars
    /\ UNCHANGED runVars

\* go func() { wg.Wait(); close(resultsChan) }(), then the driver reaches
\* the collection loop
SpawnCloser ==
    /\ dpc = "spawn"
    /\ spawned = Len(KindOrder)
    /\ closer' = "waiting"
    /\ dpc' = "collect"
    /\ UNCHANGED << bucketNames, i, bucketName, result, wg, resultsChan, chanClosed,
                    spawned, gstate, delivered, sleptAfter, retErr >>
    /\ UNCHANGED checkVars
    /\ UNCHANGED batteryVars
    /\ UNCHANGED stagingVars
    /\ UNCHANGED runVars

\* a check goroutine: run the check, send its verdict, then the deferred
\* wg.Done(). A send on a closed channel and a negative WaitGroup counter
\* panic; a send on a full channel blocks.
CheckGoroutine(k) ==
    /\ gstate[k] = "running"
    /\ dpc \in { "spawn", "collect" }
    /\ \E v \in WorldVerdicts[bucketName][k] :
          IF chanClosed \/ wg = 0
          THEN /\ dpc' = "panic"
               /\ UNCHANGED << resultsChan, wg, gstate >>
          ELSE /\ Cardinality(resultsChan) < ChanCap
               /\ resultsChan' = resultsChan \cup { [ field |-> k, value |-> v ] }
               /\ wg' = wg - 1
               /\ gstate' = [ gstate EXCEPT ![k] = "exited" ]
               /\ dpc' = dpc
    /\ UNCHANGED << bucketNames, i, bucketName, result, chanClosed,
                    spawned, closer, delivered, sleptAfter, retErr >>
    /\ UNCHANGED checkVars
    /\ UNCHANGED batteryVars
    /\ UNCHANGED stagingVars
    /\ UNCHANGED runVars

\* (mutant) the closer closes the channel without waiting for the counter
CloserRunWithoutWait ==
    /\ closer = "waiting"
    /\ dpc = "collect"
    /\ chanClosed' = TRUE
    /\ closer' = "exited"
    /\ UNCHANGED << bucketNames, i, dpc, bucketName, result, wg, resultsChan,
                    spawned, gstate, delivered, sleptAfter, retErr >>
    /\ UNCHANGED checkVars
    /\ UNCHANGED batteryVars
    /\ UNCHANGED stagingVars
    /\ UNCHANGED runVars

\* (mutant) the closer returns from wg.Wait() and leaves the channel open
CloserRunNoClose ==
    /\ closer = "waiting"
    /\ dpc = "collect"
    /\ wg = 0
    /\ chanClosed' = FALSE
    /\ closer' = "exited"
    /\ UNCHANGED << bucketNames, i, dpc, bucketName, result, wg, resultsChan,
                    spawned, gstate, delivered, sleptAfter, retErr >>
    /\ UNCHANGED checkVars
    /\ UNCHANGED batteryVars
    /\ UNCHANGED stagingVars
    /\ UNCHANGED runVars

\* the closer goroutine: wg.Wait() returns when the counter is zero
CloserRun ==
    /\ closer = "waiting"
    /\ dpc = "collect"
    /\ wg = 0
    /\ chanClosed' = TRUE
    /\ closer' = "exited"
    /\ UNCHANGED << bucketNames, i, dpc, bucketName, result, wg, resultsChan,
                    spawned, gstate, delivered, sleptAfter, retErr >>
    /\ UNCHANGED checkVars
    /\ UNCHANGED batteryVars
    /\ UNCHANGED stagingVars
    /\ UNCHANGED runVars

\* for res := range resultsChan: one received message
Collect ==
    /\ dpc = "collect"
    /\ \E m \in resultsChan :
          /\ result' = StoreResult(result, m)
          /\ resultsChan' = resultsChan \ { m }
    /\ UNCHANGED << bucketNames, i, dpc, bucketName, wg, chanClosed,
                    spawned, gstate, closer, delivered, sleptAfter, retErr >>
    /\ UNCHANGED checkVars
    /\ UNCHANGED batteryVars
    /\ UNCHANGED stagingVars
    /\ UNCHANGED runVars

\* (mutant) the collection loop ends as soon as the channel is empty
CollectEndEarly ==
    /\ dpc = "collect"
    /\ resultsChan = {}
    /\ dpc' = "callback"
    /\ UNCHANGED << bucketNames, i, bucketName, result, wg, resultsChan, chanClosed,
                    spawned, gstate, closer, delivered, sleptAfter, retErr >>
    /\ UNCHANGED checkVars
    /\ UNCHANGED batteryVars
    /\ UNCHANGED stagingVars
    /\ UNCHANGED runVars

\* the range loop ends when the channel is closed and drained
CollectEnd ==
    /\ dpc = "collect"
    /\ resultsChan = {}
    /\ chanClosed
    /\ dpc' = "callback"
    /\ UNCHANGED << bucketNames, i, bucketName, result, wg, resultsChan, chanClosed,
                    spawned, gstate, closer, delivered, sleptAfter, retErr >>
    /\ UNCHANGED checkVars
    /\ UNCHANGED batteryVars
    /\ UNCHANGED stagingVars
    /\ UNCHANGED runVars

\* (mutant) after a bucket whose eight checks were all denied the driver
\* gives up on the rest of the list
CallbackAbortOnFailure ==
    /\ dpc = "callback"
    /\ delivered' = Append(delivered, [ index |-> i, result |-> result ])
    /\ IF \A k \in Kinds : result[k] = DENIED
       THEN /\ dpc' = "returned"
            /\ i' = i
       ELSE IF i < Len(bucketNames) - 1
       THEN /\ dpc' = "sleep"
            /\ i' = i
       ELSE /\ dpc' = "loop"
            /\ i' = i + 1
    /\ UNCHANGED << bucketNames, bucketName, result, wg, resultsChan, chanClosed,
                    spawned, gstate, closer, sleptAfter, retErr >>
    /\ UNCHANGED checkVars
    /\ UNCHANGED batteryVars
    /\ UNCHANGED stagingVars
    /\ UNCHANGED runVars

\* (mutant) no inter-bucket delay: the next iteration follows the callback
CallbackNoDelay ==
    /\ dpc = "callback"
    /\ delivered' = Append(delivered, [ index |-> i, result |-> result ])
    /\ dpc' = "loop"
    /\ i' = i + 1
    /\ UNCHANGED << bucketNames, bucketName, result, wg, resultsChan, chanClosed,
                    spawned, gstate, closer, sleptAfter, retErr >>
    /\ UNCHANGED checkVars
    /\ UNCHANGED batteryVars
    /\ UNCHANGED stagingVars
    /\ UNCHANGED runVars

\* callback(result), then the test i < len(bucketNames)-1
Callback ==
    /\ dpc = "callback"
    /\ delivered' = Append(delivered, [ index |-> i, result |-> result ])
    /\ IF i < Len(bucketNames) - 1
       THEN /\ dpc' = "sleep"
            /\ i' = i
       ELSE /\ dpc' = "loop"
            /\ i' = i + 1
    /\ UNCHANGED << bucketNames, bucketName, result, wg, resultsChan, chanClosed,
                    spawned, gstate, closer, sleptAfter, retErr >>
    /\ UNCHANGED checkVars
    /\ UNCHANGED batteryVars
    /\ UNCHANGED stagingVars
    /\ UNCHANGED runVars

\* time.Sleep(100 * time.Millisecond), then the next iteration
Sleep ==
    /\ dpc = "sleep"
    /\ sleptAfter' = sleptAfter \cup { i }
    /\ i' = i + 1
    /\ dpc' = "loop"
    /\ UNCHANGED << bucketNames, bucketName, result, wg, resultsChan, chanClosed,
                    spawned, gstate, closer, delivered, retErr >>
    /\ UNCHANGED checkVars
    /\ UNCHANGED batteryVars
    /\ UNCHANGED stagingVars
    /\ UNCHANGED runVars

Next ==
    \/ LoopSkip
    \/ LoopBegin
    \/ LoopEnd
    \/ SpawnCheck
    \/ SpawnCloser
    \/ \E k \in Kinds : CheckGoroutine(k)
    \/ CloserRun
    \/ Collect
    \/ CollectEnd
    \/ Callback
    \/ Sleep

Spec == Init /\ [][Next]_vars

\* a step of the goroutine that called CheckBucketsStream
DriverStep ==
    \/ LoopSkip
    \/ LoopBegin
    \/ LoopEnd
    \/ SpawnCheck
    \/ SpawnCloser
    \/ Collect
    \/ CollectEnd
    \/ Callback
    \/ Sleep

\* the Go scheduler runs a goroutine that can run, and every call of a
\* check returns: as long as a step of the caller's goroutine, of a check
\* goroutine or of the closer is possible, one is taken
Fairness == WF_vars(Next)

SpecLive == Init /\ [][Next]_vars /\ Fairness

-----------------------------------------------------------------------------
(* One check invocation, call by call *)

InitChecks ==
    /\ bucketNames = << >>
    /\ i = 0
    /\ dpc = "off"
    /\ bucketName = << >>
    /\ result = NewResult(<< >>)
    /\ wg = 0
    /\ resultsChan = {}
    /\ chanClosed = FALSE
    /\ spawned = 0
    /\ gstate = [ k \in Kinds |-> "none" ]
    /\ closer = "none"
    /\ delivered = << >>
    /\ sleptAfter = {}
    /\ retErr = "none"
    /\ CheckIdle
    /\ BatteryIdle
    /\ StagingIdle
    /\ RunIdle

\* a check function is called on a bucket with some public-access-block flags
Invoke(k) ==
    /\ ck = "none"
    /\ ck' = k
    /\ cpc' = StartPc(k)
    /\ cret' = ""
    /\ calls' = << >>
    /\ bucketPab' \in SUBSET PabFlags
    /\ verbose' \in BOOLEAN
    /\ log' = << >>
    /\ UNCHANGED driverVars
    /\ UNCHANGED stagingVars
    /\ UNCHANGED runVars
    /\ UNCHANGED batteryVars

\* (mutant) in verbose mode a failed call ends the check: DENIED
CallStepVerboseGivesUp ==
    /\ ck # "none"
    /\ cpc # "done"
    /\ LET c == CallAt(ck, cpc)
       IN  \E r \in AnyResponse(bucketPab)[c] :
              LET s == IF Diagnostic(ck, cpc, r, verbose) # << >>
                       THEN Return(DENIED)
                       ELSE Step(ck, cpc, cret, r)
              IN  /\ cpc' = s.pc
                  /\ cret' = s.ret
                  /\ calls' = Append(calls, [ op |-> c.op, anon |-> c.anon,
                                              err |-> r.err, text |-> r.text ])
                  /\ log' = log \o Diagnostic(ck, cpc, r, verbose)
    /\ UNCHANGED << ck, bucketPab, verbose >>
    /\ UNCHANGED driverVars
    /\ UNCHANGED stagingVars
    /\ UNCHANGED runVars
    /\ UNCHANGED batteryVars

\* the check issues the call of its place and acts on the response
CallStep ==
    /\ ck # "none"
    /\ cpc # "done"
    /\ LET c == CallAt(ck, cpc)
       IN  \E r \in AnyResponse(bucketPab)[c] :
              LET s == Step(ck, cpc, cret, r)
              IN  /\ cpc' = s.pc
                  /\ cret' = s.ret
                  /\ calls' = Append(calls, [ op |-> c.op, anon |-> c.anon,
                                              err |-> r.err, text |-> r.text ])
                  /\ log' = log \o Diagnostic(ck, cpc, r, verbose)
    /\ UNCHANGED << ck, bucketPab, verbose >>
    /\ UNCHANGED driverVars
    /\ UNCHANGED stagingVars
    /\ UNCHANGED runVars
    /\ UNCHANGED batteryVars

\* the caller takes the returned verdict
CheckReturn ==
    /\ ck # "none"
    /\ cpc = "done"
    /\ ck' = "none"
    /\ cpc' = "idle"
    /\ cret' = ""
    /\ calls' = << >>
    /\ bucketPab' = {}
    /\ verbose' = FALSE
    /\ log' = << >>
    /\ UNCHANGED driverVars
    /\ UNCHANGED stagingVars
    /\ UNCHANGED runVars
    /\ UNCHANGED batteryVars

NextChecks ==
    \/ \E k \in Kinds : Invoke(k)
    \/ CallStep
    \/ CheckReturn

SpecChecks == InitChecks /\ [][NextChecks]_vars

-----------------------------------------------------------------------------
(* The eight checks against one bucket of Buckets, run after run.          *)
(* The commands answer from the bucket's state (S3) and change it. Within  *)
(* a run the checks are taken one at a time, in any order: they share no   *)
(* key (TestKey) and only checkPutACLWithContext writes the ACL.           *)

\* how many times the eight checks are run
MaxRuns == 2

\* (mutant) the temp file gets a canned private ACL
AclFilePrivate(out) == "private"

\* (mutant) the temp file gets a canned public-read ACL
AclFilePublicRead(out) == "public-read"

\* os.WriteFile(tmpFile, getOutput, 0644): the file holds the ACL document read
AclFile(out) == out

\* os.WriteFile(tmpFile, []byte("test"), 0644)
TestBody == "test"

InitBattery ==
    /\ bucketNames = << >>
    /\ i = 0
    /\ dpc = "off"
    /\ bucketName = << >>
    /\ result = NewResult(<< >>)
    /\ wg = 0
    /\ resultsChan = {}
    /\ chanClosed = FALSE
    /\ spawned = 0
    /\ gstate = [ k \in Kinds |-> "none" ]
    /\ closer = "none"
    /\ delivered = << >>
    /\ sleptAfter = {}
    /\ retErr = "none"
    /\ CheckIdle
    /\ bkt \in Buckets
    /\ run = 1
    /\ done = {}
    /\ verdicts = [ n \in 1..MaxRuns |-> [ k \in Kinds |-> "" ] ]
    /\ getOutput = ""
    /\ tmpFile = ""
    /\ StagingIdle
    /\ RunIdle

\* a check of the current run is called
BatteryInvoke(k) ==
    /\ run >= 1
    /\ ck = "none"
    /\ k \notin done
    /\ ck' = k
    /\ cpc' = StartPc(k)
    /\ cret' = ""
    /\ calls' = << >>
    /\ UNCHANGED << bucketPab, verbose, log >>
    /\ UNCHANGED driverVars
    /\ UNCHANGED stagingVars
    /\ UNCHANGED runVars
    /\ UNCHANGED batteryVars

\* the running check issues the call of its place: a command, answered by
\* the bucket, or a local file operation, which succeeds
BatteryCall ==
    /\ run >= 1
    /\ ck # "none"
    /\ cpc # "done"
    /\ LET c == CallAt(ck, cpc)
           a == IF c.op \in LocalOps
                THEN Answer(Success, "", bkt)
                ELSE S3(bkt, c, TestKey(ck, run), tmpFile)
           s == Step(ck, cpc, cret, a.resp)
       IN  /\ bkt' = a.bucket
           /\ cpc' = s.pc
           /\ cret' = s.ret
           /\ calls' = Append(calls, [ op |-> c.op, anon |-> c.anon,
                                       err |-> a.resp.err, text |-> a.resp.text ])
           /\ getOutput' = IF c.op = "get-bucket-acl" THEN a.out ELSE getOutput
           /\ tmpFile' = CASE c.op = "WriteFile" ->
                                  (IF ck = "PutACL" THEN AclFile(getOutput) ELSE TestBody)
                            [] c.op = "Remove" -> ""
                            [] OTHER -> tmpFile
    /\ UNCHANGED << ck, bucketPab, verbose, log >>
    /\ UNCHANGED << run, done, verdicts >>
    /\ UNCHANGED driverVars
    /\ UNCHANGED stagingVars
    /\ UNCHANGED runVars

\* the running check returns its verdict
BatteryReturn ==
    /\ run >= 1
    /\ ck # "none"
    /\ cpc = "done"
    /\ verdicts' = [ verdicts EXCEPT ![run][ck] = cret ]
    /\ done' = done \cup { ck }
    /\ ck' = "none"
    /\ cpc' = "idle"
    /\ cret' = ""
    /\ calls' = << >>
    /\ getOutput' = ""
    /\ tmpFile' = ""
    /\ UNCHANGED << bucketPab, verbose, log >>
    /\ UNCHANGED << bkt, run >>
    /\ UNCHANGED driverVars
    /\ UNCHANGED stagingVars
    /\ UNCHANGED runVars

\* the eight checks have returned: they are run again
BatteryAgain ==
    /\ run >= 1
    /\ run < MaxRuns
    /\ ck = "none"
    /\ done = Kinds
    /\ run' = run + 1
    /\ done' = {}
    /\ UNCHANGED << bkt, verdicts, getOutput, tmpFile >>
    /\ UNCHANGED checkVars
    /\ UNCHANGED driverVars
    /\ UNCHANGED stagingVars
    /\ UNCHANGED runVars

NextBattery ==
    \/ \E k \in Kinds : BatteryInvoke(k)
    \/ BatteryCall
    \/ BatteryReturn
    \/ BatteryAgain

SpecBattery == InitBattery /\ [][NextBattery]_vars

-----------------------------------------------------------------------------
(* The goroutines of AnonWrite, AuthWrite, AnonDel and AuthDel of one      *)
(* bucket, running concurrently as CheckBucketsStream starts them. Each    *)
(* reads the clock once for its test key and once for its temp file name,  *)
(* writes the file, and goes through its commands, which the bucket (S3)   *)
(* answers; the files live in one /tmp. The clock advances on its own, so  *)
(* that two reads, of one goroutine or of two, may return the same time.   *)
(* The other four checks create no object and no file of this name         *)
(* pattern (checkPutACLWithContext's is /tmp/acl-<bucket>-<nanos>.json).   *)

\* the latest time the clock shows
MaxTime == 2

\* the buckets the goroutines run on: everyone may write and delete;
\* everyone may put and only the caller may delete
StagingBuckets == { Owned(FALSE, "public-read-write"), DropBox }

\* the goroutine of check k at its first statement, nothing named yet
NewProc(k) == [ pc |-> StartPc(k), ret |-> "", key |-> "", file |-> "" ]

InitStaging ==
    /\ bucketNames = << >>
    /\ i = 0
    /\ dpc = "off"
    /\ bucketName = << >>
    /\ result = NewResult(<< >>)
    /\ wg = 0
    /\ resultsChan = {}
    /\ chanClosed = FALSE
    /\ spawned = 0
    /\ gstate = [ k \in Kinds |-> "none" ]
    /\ closer = "none"
    /\ delivered = << >>
    /\ sleptAfter = {}
    /\ retErr = "none"
    /\ CheckIdle
    /\ bkt \in StagingBuckets
    /\ run = 0
    /\ done = {}
    /\ verdicts = << >>
    /\ getOutput = ""
    /\ tmpFile = ""
    /\ now = 1
    /\ proc = [ k \in StagingKinds |-> NewProc(k) ]
    /\ files = {}
    /\ RunIdle

\* time passes
Tick ==
    /\ now >= 1
    /\ now < MaxTime
    /\ now' = now + 1
    /\ UNCHANGED << proc, files >>
    /\ UNCHANGED driverVars
    /\ UNCHANGED runVars
    /\ UNCHANGED checkVars
    /\ UNCHANGED batteryVars

\* testKey := fmt.Sprintf("test-...-%d", time.Now().UnixNano())
ReadKeyTime(k) ==
    /\ k \in DOMAIN proc
    /\ proc[k].pc = "WriteFile"
    /\ proc[k].key = ""
    /\ proc' = [ proc EXCEPT ![k].key = TestKey(k, now) ]
    /\ UNCHANGED << now, files >>
    /\ UNCHANGED driverVars
    /\ UNCHANGED runVars
    /\ UNCHANGED checkVars
    /\ UNCHANGED batteryVars

\* tmpFile := fmt.Sprintf("/tmp/test-%s-%d", bucketName, time.Now().UnixNano())
ReadFileTime(k) ==
    /\ k \in DOMAIN proc
    /\ proc[k].pc = "WriteFile"
    /\ proc[k].key # ""
    /\ proc[k].file = ""
    /\ proc' = [ proc EXCEPT ![k].file = TmpName(bkt.name, now) ]
    /\ UNCHANGED << now, files >>
    /\ UNCHANGED driverVars
    /\ UNCHANGED runVars
    /\ UNCHANGED checkVars
    /\ UNCHANGED batteryVars

\* the goroutine of check k issues the call of its place: os.WriteFile
\* creates the file of its name, the deferred os.Remove deletes the file of
\* its name, put-object fails without a request when its --body file does
\* not exist, and every other command is answered by the bucket
StagingCall(k) ==
    /\ k \in DOMAIN proc
    /\ proc[k].pc # "done"
    /\ proc[k].pc = "WriteFile" => proc[k].file # ""
    /\ LET c == CallAt(k, proc[k].pc)
           a == CASE c.op \in LocalOps -> Answer(Success, "", bkt)
                  [] c.op = "put-object" /\ proc[k].file \notin files ->
                         Answer(Resp(TRUE, {}), "", bkt)
                  [] OTHER -> S3(bkt, c, proc[k].key, "")
           s == Step(k, proc[k].pc, proc[k].ret, a.resp)
       IN  /\ bkt' = a.bucket
           /\ proc' = [ proc EXCEPT ![k].pc = s.pc, ![k].ret = s.ret ]
           /\ files' = CASE c.op = "WriteFile" -> files \cup { proc[k].file }
                         [] c.op = "Remove"    -> files \ { proc[k].file }
                         [] OTHER              -> files
    /\ UNCHANGED now
    /\ UNCHANGED << run, done, verdicts, getOutput, tmpFile >>
    /\ UNCHANGED driverVars
    /\ UNCHANGED runVars
    /\ UNCHANGED checkVars

NextStaging ==
    \/ Tick
    \/ \E k \in StagingKinds : ReadKeyTime(k)
    \/ \E k \in StagingKinds : ReadFileTime(k)
    \/ \E k \in StagingKinds : StagingCall(k)

SpecStaging == InitStaging /\ [][NextStaging]_vars

-----------------------------------------------------------------------------
(* runCheck (cmd/check.go): the input source is chosen by priority, the    *)
(* bucket list is read or discovered, an empty list is an error, and       *)
(* CheckBucketsStream is called on the list; its steps are those of Spec.  *)

\* the branch of the priority chain: explicit stdin flag > file > args >
\* piped stdin > list all buckets
SourceOf(stdinFlag, fileFlag, args, isStdinPipe) ==
    IF stdinFlag THEN "stdin"
    ELSE IF fileFlag THEN "file"
    ELSE IF Len(args) > 0 THEN "args"
    ELSE IF isStdinPipe THEN "pipe"
    ELSE "discovery"

\* readFromStdin, readFromFile: the lines trimmed, the empty ones left out
RECURSIVE ReadLines(_)
ReadLines(lines) ==
    IF lines = << >>
    THEN << >>
    ELSE IF TrimSpace(Head(lines)) # << >>
         THEN << TrimSpace(Head(lines)) >> \o ReadLines(Tail(lines))
         ELSE ReadLines(Tail(lines))

\* strings.Fields: the maximal runs of characters that are not white space
RECURSIVE FieldsFrom(_, _, _)
FieldsFrom(s, field, fields) ==
    IF s = << >>
    THEN (IF field = << >> THEN fields ELSE Append(fields, field))
    ELSE IF IsSpace(Head(s))
         THEN FieldsFrom(Tail(s), << >>,
                         IF field = << >> THEN fields ELSE Append(fields, field))
         ELSE FieldsFrom(Tail(s), Append(field, Head(s)), fields)

Fields(s) == FieldsFrom(s, << >>, << >>)

\* what `aws s3api list-buckets --query Buckets[].Name --output text` can
\* print: nothing, an empty line, the names separated by tabs
ListOutputs ==
    { << >>, << "\n" >>, << "a", "\n" >>, << "b", "\n" >>,
      << "a", "\t", "b", "\n" >>, << "b", "\t", "a", "\n" >> }

InitRunCheck ==
    /\ bucketNames = << >>
    /\ i = 0
    /\ dpc = "off"
    /\ bucketName = << >>
    /\ result = NewResult(<< >>)
    /\ wg = 0
    /\ resultsChan = {}
    /\ chanClosed = FALSE
    /\ spawned = 0
    /\ gstate = [ k \in Kinds |-> "none" ]
    /\ closer = "none"
    /\ delivered = << >>
    /\ sleptAfter = {}
    /\ retErr = "none"
    /\ CheckIdle
    /\ BatteryIdle
    /\ StagingIdle
    /\ rpc = "start"
    /\ source = ""
    /\ buckets = << >>
    /\ listed = NotListed
    /\ runErr = "none"

\* the if-chain on the flags, the arguments and the kind of stdin;
\* buckets = args in its third branch
RunSelect ==
    /\ rpc = "start"
    /\ \E stdinFlag \in BOOLEAN, fileFlag \in BOOLEAN, args \in Lists, isStdinPipe \in BOOLEAN :
          /\ source' = SourceOf(stdinFlag, fileFlag, args, isStdinPipe)
          /\ buckets' = IF source' = "args" THEN args ELSE << >>
          /\ rpc' = IF source' = "args" THEN "have-buckets" ELSE "read"
    /\ UNCHANGED << listed, runErr >>
    /\ UNCHANGED driverVars
    /\ UNCHANGED checkVars
    /\ UNCHANGED batteryVars
    /\ UNCHANGED stagingVars

\* readFromStdin() or readFromFile(fromFile): a read error is returned; a
\* piped stdin without a bucket is an error of its own
RunReadLines ==
    /\ rpc = "read"
    /\ source \in { "stdin", "file", "pipe" }
    /\ \E lines \in Lists, readFails \in BOOLEAN :
          IF readFails
          THEN /\ rpc' = "returned"
               /\ runErr' = IF source = "file" THEN "error reading from file"
                                               ELSE "error reading from stdin"
               /\ buckets' = buckets
          ELSE IF source = "pipe" /\ ReadLines(lines) = << >>
          THEN /\ rpc' = "returned"
               /\ runErr' = "no buckets provided via stdin"
               /\ buckets' = ReadLines(lines)
          ELSE /\ rpc' = "have-buckets"
               /\ runErr' = runErr
               /\ buckets' = ReadLines(lines)
    /\ UNCHANGED << source, listed >>
    /\ UNCHANGED driverVars
    /\ UNCHANGED checkVars
    /\ UNCHANGED batteryVars
    /\ UNCHANGED stagingVars

\* (mutant) a failed discovery is taken for an account without buckets
\* and the names printed with the failure are checked
RunListAllBucketsIgnoringError ==
    /\ rpc = "read"
    /\ source = "discovery"
    /\ \E out \in ListOutputs, failed \in BOOLEAN :
          /\ listed' = [ err |-> failed, names |-> Fields(out), called |-> TRUE ]
          /\ rpc' = "have-buckets"
          /\ runErr' = runErr
          /\ buckets' = Fields(out)
    /\ UNCHANGED source
    /\ UNCHANGED driverVars
    /\ UNCHANGED checkVars
    /\ UNCHANGED batteryVars
    /\ UNCHANGED stagingVars

\* buckets, err = checker.ListAllBuckets(): the command's failure is
\* returned, else the fields of its output are the list
RunListAllBuckets ==
    /\ rpc = "read"
    /\ source = "discovery"
    /\ \E out \in ListOutputs, failed \in BOOLEAN :
          IF failed
          THEN /\ listed' = [ err |-> TRUE, names |-> << >>, called |-> TRUE ]
               /\ rpc' = "returned"
               /\ runErr' = "error listing buckets"
               /\ buckets' = buckets
          ELSE /\ listed' = [ err |-> FALSE, names |-> Fields(out), called |-> TRUE ]
               /\ rpc' = "have-buckets"
               /\ runErr' = runErr
               /\ buckets' = Fields(out)
    /\ UNCHANGED source
    /\ UNCHANGED driverVars
    /\ UNCHANGED checkVars
    /\ UNCHANGED batteryVars
    /\ UNCHANGED stagingVars

\* if len(buckets) == 0 { return fmt.Errorf("no buckets to check") }
RunCheckEmpty ==
    /\ rpc = "have-buckets"
    /\ IF Len(buckets) = 0
       THEN /\ rpc' = "returned"
            /\ runErr' = "no buckets to check"
       ELSE /\ rpc' = "call"
            /\ runErr' = runErr
    /\ UNCHANGED << source, buckets, listed >>
    /\ UNCHANGED driverVars
    /\ UNCHANGED checkVars
    /\ UNCHANGED batteryVars
    /\ UNCHANGED stagingVars

\* err = checker.CheckBucketsStream(buckets, printResult): the call
RunCallStream ==
    /\ rpc = "call"
    /\ rpc' = "stream"
    /\ bucketNames' = buckets
    /\ i' = 0
    /\ dpc' = "loop"
    /\ UNCHANGED << bucketName, result, wg, resultsChan, chanClosed,
                    spawned, gstate, closer, delivered, sleptAfter, retErr >>
    /\ UNCHANGED << source, buckets, listed, runErr >>
    /\ UNCHANGED checkVars
    /\ UNCHANGED batteryVars
    /\ UNCHANGED stagingVars

\* CheckBucketsStream has returned: its error is wrapped and returned, else nil
RunReturn ==
    /\ rpc = "stream"
    /\ dpc = "returned"
    /\ rpc' = "returned"
    /\ runErr' = IF retErr = "nil" THEN "nil" ELSE "error checking buckets"
    /\ UNCHANGED << source, buckets, listed >>
    /\ UNCHANGED driverVars
    /\ UNCHANGED checkVars
    /\ UNCHANGED batteryVars
    /\ UNCHANGED stagingVars

NextRunCheck ==
    \/ RunSelect
    \/ RunReadLines
    \/ RunListAllBuckets
    \/ RunCheckEmpty
    \/ RunCallStream
    \/ RunReturn
    \/ Next

SpecRunCheck == InitRunCheck /\ [][NextRunCheck]_vars

-----------------------------------------------------------------------------
(* Properties *)

\* an entry that is empty or white space only
IsBlank(s) == \A j \in 1..Len(s) : IsSpace(s[j])

\* an entry without its leading and trailing white space
Trimmed(s) ==
    IF IsBlank(s)
    THEN << >>
    ELSE LET lo == CHOOSE j \in 1..Len(s) :
                      ~IsSpace(s[j]) /\ \A h \in 1..(j - 1) : IsSpace(s[h])
             hi == CHOOSE j \in 1..Len(s) :
                      ~IsSpace(s[j]) /\ \A h \in (j + 1)..Len(s) : IsSpace(s[h])
         IN  SubSeq(s, lo, hi)

\* the (0-based) indices of the input's non-blank entries
NonBlankIndices == { j \in 0..(Len(bucketNames) - 1) : ~IsBlank(bucketNames[j + 1]) }

DeliveredIndices == { delivered[p].index : p \in 1..Len(delivered) }

Verdicts == { OK, DENIED }

AllDenied(res) == \A k \in Kinds : res[k] = DENIED

AnonKinds == { "AnonGet", "AnonWrite", "AnonDel" }

\* the invocation issued a call of command op that met the condition
HeadCalls == { j \in 1..Len(calls) : calls[j].op = "head-object" }

PutCalls == { j \in 1..Len(calls) : calls[j].op = "put-object" }

DeleteCalls == { j \in 1..Len(calls) : calls[j].op = "delete-object" }

\* C1: the BucketResult handed to the callback has all eight verdict fields
\* set, each "OK" or "DENIED": none is empty, none holds a third value (for
\* every bucket of the model, whatever its calls answer and however the
\* eight goroutines interleave).
C1_ResultComplete ==
    /\ dpc = "callback" => \A k \in Kinds : result[k] \in Verdicts
    /\ \A p \in 1..Len(delivered) : \A k \in Kinds : delivered[p].result[k] \in Verdicts

\* C1 witness: a result was delivered that holds both verdicts.
C1_Witness ==
    \E p \in 1..Len(delivered) :
        /\ delivered[p].result.GetACL = OK
        /\ delivered[p].result.AnonDel = DENIED

\* C2: if any of the bucket's four public-access-block flags is true,
\* AnonGet, AnonWrite and AnonDel return DENIED, whatever the anonymous
\* operation that follows would answer.
C2_FlagOfBucketDenies ==
    (ck \in AnonKinds /\ cpc = "done" /\ bucketPab # {}) => cret = DENIED

\* C3: in AuthGet and in AnonGet, a head-object that fails with a not-found
\* response (NoSuchKey / 404) gives the verdict OK, never DENIED.
C3_NotFoundIsAllowed ==
    ( /\ ck \in { "AuthGet", "AnonGet" }
      /\ cpc = "done"
      /\ \E j \in HeadCalls : calls[j].err /\ (calls[j].text \cap NotFoundMarkers) # {} )
    => cret = OK

\* C3 witness: AnonGet, not short-circuited, returned OK on a 404.
C3_Witness ==
    /\ ck = "AnonGet"
    /\ cpc = "done"
    /\ Len(calls) = 2
    /\ calls[2].op = "head-object"
    /\ calls[2].err
    /\ calls[2].text = { "404" }
    /\ cret = OK

\* C4: in AuthGet and in AnonGet, a head-object that fails with a
\* response carrying an authorization-denied signal (AccessDenied / 403 /
\* Forbidden) gives the verdict DENIED, for every such response.
C4_DeniedIsDenied ==
    ( /\ ck \in { "AuthGet", "AnonGet" }
      /\ cpc = "done"
      /\ \E j \in HeadCalls : calls[j].err /\ (calls[j].text \cap DeniedMarkers) # {} )
    => cret = DENIED

\* C5: the callback is invoked in input order: the invocations are for
\* strictly increasing positions of the list, each for the entry at its
\* position, one bucket per invocation.
C5_CallbackOrder ==
    /\ \A p, q \in 1..Len(delivered) :
          p < q => delivered[p].index < delivered[q].index
    /\ \A p \in 1..Len(delivered) :
          /\ delivered[p].index \in 0..(Len(bucketNames) - 1)
          /\ delivered[p].result.BucketName = Trimmed(bucketNames[delivered[p].index + 1])

\* C5 witness: two different buckets were reported, the first entry first.
C5_Witness ==
    /\ Len(delivered) = 2
    /\ delivered[1].result.BucketName = << "b" >>
    /\ delivered[2].result.BucketName = << "a" >>

\* C6: when the callback is invoked, all eight check goroutines of the
\* bucket have finished and their verdicts have been collected: no check is
\* running, the channel is closed and empty, every field is set.
C6_CallbackAfterAllChecks ==
    dpc = "callback" =>
        /\ \A k \in Kinds : gstate[k] = "exited"
        /\ wg = 0
        /\ chanClosed
        /\ resultsChan = {}
        /\ \A k \in Kinds : result[k] # ""

\* C6 witness: the driver is at the callback and the eight goroutines are over.
C6_Witness ==
    /\ dpc = "callback"
    /\ \A k \in Kinds : gstate[k] = "exited"
    /\ closer = "exited"

\* C7: the callback is invoked exactly once for every entry that is
\* non-empty after trimming and never for a blank entry; duplicates count
\* separately; the result's BucketName is the trimmed entry.
C7_OncePerNonBlank ==
    /\ \A p, q \in 1..Len(delivered) :
          p # q => delivered[p].index # delivered[q].index
    /\ \A p \in 1..Len(delivered) :
          /\ delivered[p].index \in NonBlankIndices
          /\ delivered[p].result.BucketName = Trimmed(bucketNames[delivered[p].index + 1])
    /\ dpc = "returned" =>
          /\ DeliveredIndices = NonBlankIndices
          /\ Len(delivered) = Cardinality(NonBlankIndices)

\* C7 witness: a list of a whitespace-only entry and an entry with
\* surrounding white space gave one callback, for the trimmed name.
C7_Witness ==
    /\ dpc = "returned"
    /\ bucketNames = << << " ", "\t" >>, << " ", "b", " " >> >>
    /\ Len(delivered) = 1
    /\ delivered[1].result.BucketName = << "b" >>

\* C8: a bucket whose every call fails (bucket "a") does not keep the later
\* buckets of the list from being probed and reported, each with the
\* verdicts its own checks give.
C8_LaterBucketsStillReported ==
    dpc = "returned" =>
        \A j \in NonBlankIndices : \A q \in NonBlankIndices :
            (j < q /\ Trimmed(bucketNames[j + 1]) = << "a" >>) =>
                \E p \in 1..Len(delivered) :
                    /\ delivered[p].index = q
                    /\ \A k \in Kinds :
                          delivered[p].result[k]
                              \in RunCheck(k, World(Trimmed(bucketNames[q + 1])))

\* C8 witness: after the failing bucket "a", bucket "b" was reported with
\* its own verdicts.
C8_Witness ==
    /\ dpc = "returned"
    /\ Len(delivered) = 2
    /\ delivered[1].result.BucketName = << "a" >>
    /\ AllDenied(delivered[1].result)
    /\ delivered[2].result.BucketName = << "b" >>
    /\ delivered[2].result.AuthWrite = OK

\* C9: no check failure becomes a driver error: the driver never panics,
\* every verdict sent is a verdict string, and CheckBucketsStream returns
\* nil, after the whole list.
C9_NoDriverError ==
    /\ dpc # "panic"
    /\ retErr \in { "none", "nil" }
    /\ \A m \in resultsChan : m.value \in Verdicts
    /\ dpc = "returned" => (retErr = "nil" /\ i = Len(bucketNames))

\* C9 witness: the driver returned nil after a bucket whose checks all failed.
C9_Witness ==
    /\ dpc = "returned"
    /\ retErr = "nil"
    /\ \E p \in 1..Len(delivered) : AllDenied(delivered[p].result)

\* C10: in AnonDel and in AuthDel, once the creation (put-object) of the
\* test object has failed, the check issues no delete-object call and
\* returns DENIED: only the deferred removal of the local file follows.
C10_NoDeleteAfterFailedCreate ==
    ( /\ ck \in { "AnonDel", "AuthDel" }
      /\ \E j \in PutCalls : calls[j].err )
    => /\ DeleteCalls = {}
       /\ cpc \in { "Remove", "done" }
       /\ cret = DENIED

\* C10 witness: AnonDel returned after a failed put-object.
C10_Witness ==
    /\ ck = "AnonDel"
    /\ cpc = "done"
    /\ \E j \in PutCalls : calls[j].err
    /\ cret = DENIED

NothingForAnonymous(b) ==
    \A op \in ObjectOps : ~Allowed(b, [ op |-> op, anon |-> TRUE ])

\* the verdicts of kinds returned so far, in any run, are all v
VerdictsSoFar(kinds, v) ==
    \A n \in DOMAIN verdicts : \A k \in kinds : verdicts[n][k] \in { "", v }

\* C12: on a bucket with all four public-access-block flags true, on which
\* the caller and anonymous requests are denied every operation the checks
\* probe, all eight verdicts are DENIED.
C12_LockedBucketAllDenied ==
    ( /\ run >= 1
      /\ bkt.pab = PabFlags
      /\ bkt.authAllow \subseteq { "get-public-access-block" }
      /\ NothingForAnonymous(bkt) )
    => VerdictsSoFar(Kinds, DENIED)

\* C12 witness: the eight checks have returned DENIED on such a bucket
\* (whose public-access-block configuration the caller can read).
C12_Witness ==
    /\ run = 1
    /\ done = Kinds
    /\ bkt.pab = PabFlags
    /\ bkt.authAllow = { "get-public-access-block" }
    /\ \A k \in Kinds : verdicts[1][k] = DENIED

Running == { k \in Kinds : gstate[k] = "running" }

\* C14: buckets are processed strictly one after another: check goroutines
\* run only between the go statements of the current bucket and the end of
\* its collection loop, at most eight of them, all for the current bucket;
\* while the checks of a bucket are started or running, every bucket
\* reported before it has had its callback and the delay after it.
C14_OneBucketAtATime ==
    /\ Cardinality(Running) <= WgAdd
    /\ spawned <= WgAdd
    /\ Running # {} =>
          /\ dpc \in { "spawn", "collect" }
          /\ bucketName = Trimmed(bucketNames[i + 1])
    /\ dpc \in { "spawn", "collect", "callback" } =>
          \A p \in 1..Len(delivered) :
              /\ delivered[p].index < i
              /\ delivered[p].index \in sleptAfter

\* C14 witness: checks of the second bucket are running, after the first
\* bucket's callback and the delay.
C14_Witness ==
    /\ dpc = "collect"
    /\ i = 1
    /\ Running # {}
    /\ Len(delivered) = 1
    /\ sleptAfter = { 0 }

\* the index of the last bucket reported
LastDelivered == delivered[Len(delivered)].index

\* C15: after the callback of each processed bucket the driver pauses for
\* the inter-bucket delay, except after the last processed bucket, after
\* which it returns without pausing, blank entries in the list or not.
C15_PauseExceptAfterLast ==
    (dpc = "returned" /\ delivered # << >>) =>
        sleptAfter = DeliveredIndices \ { LastDelivered }

\* the calls by which a check probes the permission it reports (the
\* public-access-block fetch, the policy fallback and the cleanup delete
\* are not among them)
IsProbe(kind, c) ==
    CASE kind = "GetACL"    -> c.op = "get-bucket-acl"
      [] kind = "PutACL"    -> c.op \in { "get-bucket-acl", "put-bucket-acl" }
      [] kind = "AnonGet"   -> c.op = "head-object"
      [] kind = "AuthGet"   -> c.op = "head-object"
      [] kind = "AnonWrite" -> c.op = "put-object"
      [] kind = "AuthWrite" -> c.op = "put-object"
      [] kind = "AnonDel"   -> c.op = "put-object" \/ (c.op = "delete-object" /\ c.anon)
      [] kind = "AuthDel"   -> c.op \in { "put-object", "delete-object" }

\* a failure that is neither an authorization-denied nor a not-found
\* response: the endpoint was not reached, or the text carries no signal
Unexpected(c) ==
    /\ c.err
    /\ \/ NetworkError \in c.text
       \/ (c.text \cap (DeniedMarkers \cup NotFoundMarkers)) = {}

\* C16: in every check, a failure of the probing operation that is neither
\* authorization-denied nor not-found (network error, malformed response,
\* unexpected status) gives the verdict DENIED, never OK.
C16_UnexpectedErrorIsDenied ==
    ( /\ ck # "none"
      /\ cpc = "done"
      /\ \E j \in 1..Len(calls) : IsProbe(ck, calls[j]) /\ Unexpected(calls[j]) )
    => cret = DENIED

\* C17: whenever a write or delete check (AnonWrite, AuthWrite, AnonDel,
\* AuthDel) returns OK, the test object the check created is no longer in
\* the bucket.
C17_OkLeavesNoTestObject ==
    ( /\ run >= 1
      /\ ck \in StagingKinds
      /\ cpc = "done"
      /\ cret = OK )
    => TestKey(ck, run) \notin bkt.objects

\* the live anonymous operation of AnonGet, AnonWrite, AnonDel
LiveOp(kind) ==
    CASE kind = "AnonGet"   -> "head-object"
      [] kind = "AnonWrite" -> "put-object"
      [] kind = "AnonDel"   -> "delete-object"

\* C18: the public-access-block pre-check can only give DENIED: whenever
\* AnonGet, AnonWrite or AnonDel has decided OK, its live anonymous
\* operation (unsigned head-object, put-object or delete-object) was
\* attempted in that invocation, after the pre-check.
C18_OkOnlyAfterLiveOperation ==
    (ck \in AnonKinds /\ cret = OK) =>
        \E j \in 2..Len(calls) :
            /\ calls[j].op = LiveOp(ck)
            /\ calls[j].anon
            /\ calls[1].op = "get-public-access-block"

\* C18 witness: AnonWrite returned OK after a configuration with no flag
\* true was read and the unsigned put-object succeeded.
C18_Witness ==
    /\ ck = "AnonWrite"
    /\ cpc = "done"
    /\ cret = OK
    /\ ~calls[1].err
    /\ \E j \in PutCalls : calls[j].anon /\ ~calls[j].err

\* the place and verdict a check reaches from place pc on the responses of
\* the calls cs, when the verbose field is off; "diverged" if the check
\* would not issue these calls
RECURSIVE Replay(_, _, _, _)
Replay(kind, pc, ret, cs) ==
    IF cs = << >>
    THEN [ pc |-> pc, ret |-> ret ]
    ELSE IF pc = "done" \/ CallAt(kind, pc) # [ op |-> Head(cs).op, anon |-> Head(cs).anon ]
    THEN [ pc |-> "diverged", ret |-> ret ]
    ELSE LET s == Step(kind, pc, ret, Resp(Head(cs).err, Head(cs).text))
         IN  Replay(kind, s.pc, s.ret, Tail(cs))

\* where the check stands after a public-access-block output with no flag true
AfterNoFlag(kind) == Step(kind, "get-public-access-block", "", Success)

\* C19: in AnonGet, AnonWrite and AnonDel a failed public-access-block
\* fetch never decides the verdict, whatever the reason of the failure: the
\* check goes on to what follows the pre-check, and from there does, and
\* returns, what it does when the fetch shows no flag true.
C19_FailedFetchDecidesNothing ==
    ( /\ ck \in AnonKinds
      /\ calls # << >>
      /\ calls[1].op = "get-public-access-block"
      /\ calls[1].err )
    => /\ AfterNoFlag(ck).pc # "done"
       /\ [ pc |-> cpc, ret |-> cret ]
             = Replay(ck, AfterNoFlag(ck).pc, AfterNoFlag(ck).ret, Tail(calls))

\* C19 witness: AnonDel returned OK after a fetch refused with AccessDenied
\* on a bucket that has a flag true.
C19_Witness ==
    /\ ck = "AnonDel"
    /\ cpc = "done"
    /\ cret = OK
    /\ bucketPab # {}
    /\ calls[1].err
    /\ "AccessDenied" \in calls[1].text

C21_NoRetry ==
    \A j, h \in 1..Len(calls) :
        (calls[j].op = calls[h].op /\ calls[j].anon = calls[h].anon) => j = h

\* C21 witness: AnonDel returned after its put-object succeeded and its
\* unsigned delete-object failed: six calls, no two alike.
C21_Witness ==
    /\ ck = "AnonDel"
    /\ cpc = "done"
    /\ Len(calls) = 6
    /\ \E j \in DeleteCalls : calls[j].anon /\ calls[j].err

\* the calls of a command in the log
CallsOf(op) == { j \in 1..Len(calls) : calls[j].op = op }

\* C24: the assembled BucketResult does not depend on the order in which
\* the eight checks complete: in every order each verdict sent is stored in
\* the field of its own check and in no other, so that the result handed
\* to the callback holds, field by field, the verdict of that field's check.
C24_OwnFieldInAnyOrder ==
    /\ dpc \in { "spawn", "collect", "callback" } =>
          \A k \in Kinds :
              \/ /\ result[k] = ""
                 /\ \/ gstate[k] # "exited"
                    \/ \E m \in resultsChan : m.field = k
              \/ /\ result[k] \in WorldVerdicts[bucketName][k]
                 /\ gstate[k] = "exited"
                 /\ \A m \in resultsChan : m.field # k
    /\ \A p \in 1..Len(delivered) : \A k \in Kinds :
          delivered[p].result[k] \in WorldVerdicts[delivered[p].result.BucketName][k]

\* C24 witness: on bucket "b" the verdict of the check started last is
\* stored while the check started first is still running.
C24_Witness ==
    /\ dpc = "collect"
    /\ bucketName = << "b" >>
    /\ result.AuthDel = OK
    /\ gstate["GetACL"] = "running"

\* C25: PutACL returns OK if and only if both its ACL fetch and its
\* write-back succeed; when the fetch fails, or staging the fetched ACL in
\* a local file fails, it returns DENIED and issues no put-bucket-acl.
C25_PutAclVerdict ==
    (ck = "PutACL" /\ cpc = "done") =>
        /\ cret = OK <=>
              /\ \E j \in CallsOf("get-bucket-acl") : ~calls[j].err
              /\ \E j \in CallsOf("put-bucket-acl") : ~calls[j].err
        /\ cret \in Verdicts
        /\ ( \/ \E j \in CallsOf("get-bucket-acl") : calls[j].err
             \/ \E j \in CallsOf("WriteFile") : calls[j].err )
           => (cret = DENIED /\ CallsOf("put-bucket-acl") = {})

\* C25 witness: PutACL returned DENIED after the staging of the ACL failed.
C25_Witness ==
    /\ ck = "PutACL"
    /\ cpc = "done"
    /\ cret = DENIED
    /\ \E j \in CallsOf("WriteFile") : calls[j].err

\* a failed call whose text holds neither a not-found nor a denied signal
NoSignal(c) == c.err /\ (c.text \cap (NotFoundMarkers \cup DeniedMarkers)) = {}

\* the policy text grants reading to everyone, as the heuristic sees it
PolicyGrantsGet(c) ==
    /\ ~c.err
    /\ (c.text \cap PrincipalPatterns) # {}
    /\ (c.text \cap ActionPatterns) # {}

C28_AnonDelCleanup ==
    (ck = "AnonDel" /\ cpc \in { "Remove", "done" }) =>
        \A j \in DeleteCalls :
            calls[j].anon =>
                IF calls[j].err
                THEN /\ cret = DENIED
                     /\ { h \in DeleteCalls : ~calls[h].anon } = { j + 1 }
                ELSE /\ cret = OK
                     /\ { h \in DeleteCalls : ~calls[h].anon } = {}

\* C28 witness: AnonDel returned DENIED after its unsigned delete failed
\* and its signed cleanup failed as well.
C28_Witness ==
    /\ ck = "AnonDel"
    /\ cpc = "done"
    /\ cret = DENIED
    /\ \E j \in DeleteCalls : calls[j].anon /\ calls[j].err
    /\ \E j \in DeleteCalls : ~calls[j].anon /\ calls[j].err


\* C27: in AnonWrite and AuthWrite the put-object alone decides: the check
\* returns OK if and only if the put succeeds; after a successful put it
\* issues exactly one cleanup delete-object, unsigned for AnonWrite and
\* signed for AuthWrite like the put, whose outcome leaves the verdict OK;
\* after a failed put (or none) it issues no delete.
C27_PutAloneDecides ==
    (ck \in { "AnonWrite", "AuthWrite" } /\ cpc \in { "Remove", "done" }) =>
        /\ cret = OK <=> \E j \in PutCalls : ~calls[j].err
        /\ \A j \in PutCalls :
              /\ calls[j].anon = (ck = "AnonWrite")
              /\ IF calls[j].err
                 THEN DeleteCalls = {}
                 ELSE /\ DeleteCalls = { j + 1 }
                      /\ calls[j + 1].anon = calls[j].anon
        /\ PutCalls = {} => DeleteCalls = {}

\* C27 witness: AnonWrite returned OK although its cleanup delete failed.
C27_Witness ==
    /\ ck = "AnonWrite"
    /\ cpc = "done"
    /\ cret = OK
    /\ \E j \in DeleteCalls : calls[j].anon /\ calls[j].err

\* the running check fetched a public-access-block holding a true flag
ShortCircuited ==
    /\ ck \in AnonKinds
    /\ Len(calls) >= 1
    /\ calls[1].op = "get-public-access-block"
    /\ ~calls[1].err
    /\ (calls[1].text \cap PabPatterns) # {}

\* C29: when AnonGet, AnonWrite or AnonDel short-circuits on a
\* public-access-block flag, the fetch is its only call: it returns DENIED
\* at once, no local file is staged, and no step of the check changes the
\* bucket (no test object is created).
C29_ShortCircuitTouchesNothing ==
    /\ [](ShortCircuited =>
            /\ Len(calls) = 1
            /\ cpc = "done"
            /\ cret = DENIED
            /\ tmpFile = ""
            /\ TestKey(ck, run) \notin bkt.objects)
    /\ [][ShortCircuited' => bkt' = bkt]_vars

\* C29 witness: AnonWrite short-circuited on the bucket whose one true flag
\* is BlockPublicAcls.
C29_Witness ==
    /\ ck = "AnonWrite"
    /\ ShortCircuited
    /\ cpc = "done"
    /\ bkt.name = "PublicPolicy"

\* C30: PutACL writes back the ACL its own fetch returned, unmodified: the
\* file handed to put-bucket-acl holds the fetched document, and the
\* bucket's ACL is the same after every step, whether the write-back
\* succeeds or fails.
C30_AclUnchanged ==
    /\ []((ck = "PutACL" /\ cpc = "put-bucket-acl") =>
            (tmpFile = getOutput /\ getOutput = bkt.acl))
    /\ [][bkt'.acl = bkt.acl]_vars

\* C30 witness: PutACL returned OK on a bucket whose ACL is public-read.
C30_Witness ==
    /\ ck = "PutACL"
    /\ cpc = "done"
    /\ cret = OK
    /\ bkt.acl = "public-read"


\* check k has its test key, its temp file name
HasKey(k) == proc[k].key # ""
HasFile(k) == proc[k].file # ""

\* check k has created its test object and not yet asked for its deletion
ObjectPending(k) ==
    \/ proc[k].pc = "cleanup"
    \/ (k \in { "AnonDel", "AuthDel" } /\ proc[k].pc = "delete-object")

\* C22: the test keys of AnonWrite, AuthWrite, AnonDel and AuthDel running
\* concurrently on one bucket are pairwise distinct, also when their clock
\* reads coincide; so no check deletes or overwrites a sibling's test
\* object: an object a check has created is in the bucket until that check
\* itself asks for its deletion.
C22_KeysPairwiseDistinct ==
    /\ \A k, h \in DOMAIN proc :
          (k # h /\ HasKey(k) /\ HasKey(h)) => proc[k].key # proc[h].key
    /\ \A k \in DOMAIN proc : ObjectPending(k) => proc[k].key \in bkt.objects

\* C22 witness: AuthWrite and AuthDel drew their keys from the same clock
\* reading and the test objects of both are in the bucket.
C22_Witness ==
    /\ DOMAIN proc = StagingKinds
    /\ proc["AuthWrite"].key = TestKey("AuthWrite", 1)
    /\ proc["AuthDel"].key = TestKey("AuthDel", 1)
    /\ ObjectPending("AuthWrite")
    /\ ObjectPending("AuthDel")

\* check k's deferred os.Remove is registered and has not run
Staged(k) == proc[k].pc \in { "put-object", "delete-object", "cleanup", "Remove" }

\* C23: a staged temp file is owned by the check that created it alone: no
\* two running checks hold the same file name, and a check about to upload
\* finds its file in place.
C23_FileOwnedByOneCheck ==
    /\ \A k, h \in DOMAIN proc :
          (k # h /\ HasFile(k) /\ HasFile(h)) => proc[k].file # proc[h].file
    /\ \A k \in DOMAIN proc : proc[k].pc = "put-object" => proc[k].file \in files


\* the checks whose goroutine has sent its verdict
Sent == { k \in Kinds : gstate[k] = "exited" }

\* the checks whose verdict has been received and stored
Stored == { k \in Kinds : result[k] # "" }

\* C35: per bucket each check goroutine sends one message, eight in all
\* when the channel is closed; the channel never holds more than its
\* capacity and a goroutine that is to send finds room; the channel is
\* closed once, by the closer, only after the eight sends; no goroutine
\* sends on the closed channel.
C35_ChannelProtocol ==
    /\ dpc # "panic"
    /\ Cardinality(resultsChan) <= ChanCap
    /\ \A k \in Kinds : gstate[k] = "running" => Cardinality(resultsChan) < ChanCap
    /\ \A m, n \in resultsChan : m.field = n.field => m = n
    /\ dpc \in { "spawn", "collect", "callback" } =>
          /\ { m.field : m \in resultsChan } \cup Stored = Sent
          /\ { m.field : m \in resultsChan } \cap Stored = {}
          /\ wg = WgAdd - Cardinality(Sent)
          /\ chanClosed <=> closer = "exited"
          /\ chanClosed => Sent = Kinds

\* C35 witness: the channel is closed while it holds the eight messages.
C35_Witness ==
    /\ chanClosed
    /\ Cardinality(resultsChan) = ChanCap
    /\ { m.field : m \in resultsChan } = Kinds


\* C31: when every call of every check returns, CheckBucketsStream
\* terminates on every input list with the callback invoked for every
\* non-blank entry; every check goroutine gets to send its verdict and exit,
\* and the result channel of every bucket is closed.
C31_Terminates ==
    <>[]( /\ dpc = "returned"
          /\ retErr = "nil"
          /\ DeliveredIndices = NonBlankIndices
          /\ \A k \in Kinds : gstate[k] # "running"
          /\ closer = "waiting" => chanClosed )

\* C31 witness: CheckBucketsStream has returned after two buckets.
C31_Witness ==
    /\ dpc = "returned"
    /\ Len(delivered) = MaxLen
    /\ DeliveredIndices = NonBlankIndices


\* every identifier of the list is non-blank and has no surrounding white space
Plain(names) ==
    \A j \in 1..Len(names) : ~IsBlank(names[j]) /\ TrimSpace(names[j]) = names[j]

\* the results handed to the callback, in the order of the calls
DeliveredResults == [ p \in 1..Len(delivered) |-> delivered[p].result ]

\* C34: on a list of non-blank identifiers without surrounding white
\* space, with the same outcomes of the calls of each check, the results
\* CheckBucketsStream has passed to its callback when it returns are the
\* sequence CheckBuckets returns: same order, same name and same eight
\* verdicts each.
C34_SequentialSameResults ==
    /\ \A n \in Names : \A k \in Kinds : Cardinality(WorldVerdicts[n][k]) = 1
    /\ (dpc = "returned" /\ Plain(bucketNames)) =>
          DeliveredResults = CheckBuckets(bucketNames)

\* C34 witness: CheckBucketsStream has returned on the list of two
\* different plain names.
C34_Witness ==
    /\ dpc = "returned"
    /\ bucketNames = << << "a" >>, << "b" >> >>
    /\ Len(delivered) = MaxLen


\* the checks that stage a local temp file
FileKinds == { "PutACL" } \cup StagingKinds

NothingRun ==
    /\ dpc = "off"
    /\ spawned = 0
    /\ \A k \in Kinds : gstate[k] = "none"
    /\ delivered = << >>

\* C32: without --stdin, --file, arguments and piped stdin, and only then,
\* runCheck takes its list from ListAllBuckets and passes that list to
\* CheckBucketsStream; when the discovery fails or gives no bucket,
\* runCheck returns an error, no check is run and no callback is invoked.
C32_DiscoveryWhenNoSource ==
    /\ \A stdinFlag \in BOOLEAN, fileFlag \in BOOLEAN, args \in Lists, isStdinPipe \in BOOLEAN :
          SourceOf(stdinFlag, fileFlag, args, isStdinPipe) = "discovery"
             <=> (~stdinFlag /\ ~fileFlag /\ args = << >> /\ ~isStdinPipe)
    /\ listed.called <=> (source = "discovery" /\ rpc # "read")
    /\ (source = "discovery" /\ dpc # "off") =>
          /\ ~listed.err
          /\ listed.names # << >>
          /\ bucketNames = listed.names
    /\ (listed.called /\ (listed.err \/ listed.names = << >>)) =>
          /\ NothingRun
          /\ rpc \in { "have-buckets", "returned" }
          /\ rpc = "returned" =>
                runErr = IF listed.err THEN "error listing buckets"
                                       ELSE "no buckets to check"

\* C32 witness: the discovery succeeded without a bucket and runCheck
\* returned its error.
C32_Witness ==
    /\ source = "discovery"
    /\ listed.called
    /\ ~listed.err
    /\ rpc = "returned"
    /\ runErr = "no buckets to check"
    /\ NothingRun

=============================================================================
